---- MODULE Spec2Model ----
(***************************************************************************)
(* Auction clock and bid engine of reverse-auction-mvp.                    *)
(*                                                                         *)
(* The store (PostgreSQL) is the events table and the bids table.  Each    *)
(* HTTP / socket handler and each interval callback is an async function:  *)
(* it runs to its next await, and other handlers run in between.  A        *)
(* handler in flight is a record with a pc (the await it is parked on) and *)
(* the locals it read so far.  Wall-clock time is in milliseconds.         *)
(***************************************************************************)
EXTENDS Integers, Sequences, FiniteSets, TLC

VARIABLES
    now,            \* wall clock (new Date()), ms
    storeUp,        \* whether pool.query currently succeeds
    events,         \* events table: event id -> row
    bids,           \* bids table, in insertion (created_at) order
    hBid,           \* the bid handler in flight (single, bulk or socket new_bid)
    hPause,         \* the PATCH /events/:id/pause handler in flight
    hResume,        \* the PATCH /events/:id/resume handler in flight
    hReset,         \* the POST /events/:id/debug-reset handler in flight
    activeTimers,   \* socket-auction-timer.js activeTimers: Map key -> interval
    rooms,          \* socket.io rooms: the set of <<room, socket>> memberships
    cbs,            \* interval callbacks in flight
    out,            \* what the last step emitted: io.to(room).emit / res.json, in order
    remAtFreeze,    \* history: secondsRemaining when the running clock was last frozen
    lastSync        \* history, kept where Init asks for it: per timer key, the last time_sync emitted

vars == <<now, storeUp, events, bids, hBid, hPause, hResume, hReset,
          activeTimers, rooms, cbs, out, remAtFreeze, lastSync>>

----------------------------------------------------------------------------
\* Bounds of the model.
MaxTime == 2500
ClockStep == 500
MaxBids == 2
MaxRankBids == 3
MaxInFlight == 2

\* Program constants.
NULL == -1
MsPerSecond == 1000
DefaultExtensionThreshold == 60
DefaultExtensionTime == 120
DefaultDuration == 1800
NoBidAmount == 999999999

EventIds == {1, 2}
Bidders == {"b1", "b2"}
Managers == {"m1", "m2"}
Users == Bidders \cup Managers
LineItems == {1}

\* req.user.role
RoleOf(u) == IF u \in Managers THEN "manager" ELSE "bidder"

\* JavaScript truthiness of a nullable number: null and 0 are falsy.
Truthy(x) == x # NULL /\ x # 0

\* An amount that Number() turns into NaN (a string that is no number), and
\* an amount below zero.
NotANumber == -2
NegativeAmount == -5

\* isNaN(x): true of undefined and of what is no number.
IsNaN(x) == x = NULL \/ x = NotANumber

\* What the column amount NUMERIC(12,2) NOT NULL takes.
NumericOk(x) == x # NULL /\ x # NotANumber

\* a || b
OrElse(a, b) == IF Truthy(a) THEN a ELSE b

Max(a, b) == IF a >= b THEN a ELSE b

\* Math.floor(ms / 1000), for either sign
FloorSeconds(ms) == ms \div MsPerSecond

\* Math.max(0, Math.floor((endTime - now) / 1000))
SecondsRemaining(endAt, t) == Max(0, FloorSeconds(endAt - t))

\* A row of the events table; present = FALSE stands for "no such row".
NoRow == [present |-> FALSE, type |-> "open", endAt |-> NULL, pausedRem |-> NULL,
          elapsed |-> 0, thr |-> NULL, ext |-> NULL, dur |-> NULL, reveal |-> FALSE]

\* The anti-sniping and duration settings an event is created with
\* (extension_threshold, extension_time, auction_duration, in seconds).
Configs == { [thr |-> 1, ext |-> 2, dur |-> 1],
             [thr |-> 2, ext |-> 1, dur |-> 2],
             [thr |-> NULL, ext |-> NULL, dur |-> NULL] }

Types == {"open", "sealed"}

NewRow(c, ty) == [present |-> TRUE, type |-> ty, endAt |-> NULL, pausedRem |-> NULL,
                  elapsed |-> 0, thr |-> c.thr, ext |-> c.ext, dur |-> c.dur,
                  reveal |-> FALSE]

\* The managers that are creator or participant of the event.
TeamOf(e) == IF e = 1 THEN {"m1"} ELSE {}

Idle == [pc |-> "idle"]

\* The condition under which the manager branch of the bids view masks names.
MaskedView(r) == r.type = "sealed" /\ ~r.reveal

\* What each SELECT reads of the event row (rows[0], undefined when there is none).
\* pause: SELECT auction_end_time, elapsed_seconds
PauseCols(r) == [present |-> r.present, endAt |-> r.endAt, elapsed |-> r.elapsed]
\* resume: SELECT paused_time_remaining
ResumeCols(r) == [present |-> r.present, pausedRem |-> r.pausedRem]
\* bids: SELECT auction_end_time, extension_time, extension_threshold, type
BidCols(r) == [present |-> r.present, endAt |-> r.endAt, ext |-> r.ext, thr |-> r.thr,
               type |-> r.type]


Msg(room, type, val) == [room |-> room, type |-> type, val |-> val]
Res(code) == Msg("res", "http", code)
EventRoom(e) == <<"event", e>>

\* UPDATE events SET ... WHERE id = e: no row, nothing updated.
UpdateRow(e, row) == IF events[e].present THEN [events EXCEPT ![e] = row] ELSE events

TimerVars == <<activeTimers, rooms, cbs>>

----------------------------------------------------------------------------
\* The environment: time passes, the store goes down and comes back.

AdvanceClock ==
    /\ now + ClockStep <= MaxTime
    /\ now' = now + ClockStep
    /\ out' = <<>>
    /\ UNCHANGED <<storeUp, events, bids, hBid, hPause, hResume, hReset, TimerVars, remAtFreeze, lastSync>>

StoreFail ==
    /\ storeUp
    /\ storeUp' = FALSE
    /\ out' = <<>>
    /\ UNCHANGED <<now, events, bids, hBid, hPause, hResume, hReset, TimerVars, remAtFreeze, lastSync>>

StoreRecover ==
    /\ ~storeUp
    /\ storeUp' = TRUE
    /\ out' = <<>>
    /\ UNCHANGED <<now, events, bids, hBid, hPause, hResume, hReset, TimerVars, remAtFreeze, lastSync>>

----------------------------------------------------------------------------
\* PATCH /events/:id/pause

\* The role check, checkTeamMembership and the SELECT of the event row.
PauseRead(u, e) ==
    /\ hPause.pc = "idle"
    /\ IF RoleOf(u) # "manager" THEN out' = <<Res(403)>> /\ UNCHANGED hPause
       ELSE IF ~storeUp THEN out' = <<Res(500)>> /\ UNCHANGED hPause
       ELSE IF ~(events[e].present /\ u \in TeamOf(e))
            THEN out' = <<Res(403)>> /\ UNCHANGED hPause
       ELSE /\ hPause' = [pc |-> "write", e |-> e, ev |-> PauseCols(events[e])]
            /\ out' = <<>>
    /\ UNCHANGED <<now, storeUp, events, bids, hBid, hResume, hReset, TimerVars, remAtFreeze, lastSync>>

\* A pause UPDATE that also clears auction_end_time.
PausedRowClearingEndAt(ev, cur, t) ==
    IF ev.present /\ ev.endAt # NULL
    THEN [cur EXCEPT !.type = "paused",
                     !.pausedRem = SecondsRemaining(ev.endAt, t),
                     !.elapsed = OrElse(ev.elapsed, 0),
                     !.endAt = NULL]
    ELSE [cur EXCEPT !.type = "paused"]

\* The row the pause UPDATE writes, from the row read (ev) and the row stored (cur).
PausedRow(ev, cur, t) ==
    IF ev.present /\ ev.endAt # NULL
    THEN [cur EXCEPT !.type = "paused",
                     !.pausedRem = SecondsRemaining(ev.endAt, t),
                     !.elapsed = OrElse(ev.elapsed, 0)]
    ELSE [cur EXCEPT !.type = "paused"]

\* The UPDATE, then the auction_paused broadcast and the response.
PauseWrite ==
    /\ hPause.pc = "write"
    /\ hPause' = Idle
    /\ LET e == hPause.e
           cur == events[e]
       IN IF ~storeUp
          THEN out' = <<Res(500)>> /\ UNCHANGED <<events, remAtFreeze, lastSync>>
          ELSE /\ events' = UpdateRow(e, PausedRow(hPause.ev, cur, now))
               /\ out' = <<Msg(EventRoom(e), "auction_paused", <<>>), Res(200)>>
               /\ remAtFreeze' =
                    IF cur.present /\ cur.type # "paused" /\ cur.endAt # NULL
                    THEN [remAtFreeze EXCEPT ![e] = SecondsRemaining(cur.endAt, now)]
                    ELSE remAtFreeze
    /\ UNCHANGED <<now, storeUp, bids, hBid, hResume, hReset, TimerVars, lastSync>>

----------------------------------------------------------------------------
\* PATCH /events/:id/resume

ResumeRead(u, e) ==
    /\ hResume.pc = "idle"
    /\ IF RoleOf(u) # "manager" THEN out' = <<Res(403)>> /\ UNCHANGED hResume
       ELSE IF ~storeUp THEN out' = <<Res(500)>> /\ UNCHANGED hResume
       ELSE IF ~(events[e].present /\ u \in TeamOf(e))
            THEN out' = <<Res(403)>> /\ UNCHANGED hResume
       ELSE /\ hResume' = [pc |-> "write", e |-> e, ev |-> ResumeCols(events[e])]
            /\ out' = <<>>
    /\ UNCHANGED <<now, storeUp, events, bids, hBid, hPause, hReset, TimerVars, remAtFreeze, lastSync>>

\* The row the resume UPDATE writes.
ResumedRow(ev, cur, t) ==
    IF ev.present /\ ev.pausedRem # NULL
    THEN [cur EXCEPT !.type = "open",
                     !.endAt = t + ev.pausedRem * MsPerSecond,
                     !.pausedRem = NULL]
    ELSE [cur EXCEPT !.type = "open"]

ResumeWrite ==
    /\ hResume.pc = "write"
    /\ hResume' = Idle
    /\ LET e == hResume.e
       IN IF ~storeUp
          THEN out' = <<Res(500)>> /\ UNCHANGED <<events, remAtFreeze, lastSync>>
          ELSE /\ events' = UpdateRow(e, ResumedRow(hResume.ev, events[e], now))
               /\ out' = <<Msg(EventRoom(e), "auction_resumed", <<>>), Res(200)>>
               /\ remAtFreeze' = [remAtFreeze EXCEPT ![e] = NULL]
    /\ UNCHANGED <<now, storeUp, bids, hBid, hPause, hReset, TimerVars, lastSync>>

----------------------------------------------------------------------------
\* PATCH /events/:id/initialize-end-time

InitEndTime(e, t) ==
    /\ IF ~Truthy(t) THEN out' = <<Res(400)>> /\ UNCHANGED events
       ELSE IF ~storeUp THEN out' = <<Res(500)>> /\ UNCHANGED events
       ELSE /\ events' = IF events[e].endAt = NULL
                         THEN UpdateRow(e, [events[e] EXCEPT !.endAt = t])
                         ELSE events
            /\ out' = <<Res(200)>>
    /\ UNCHANGED <<now, storeUp, bids, hBid, hPause, hResume, hReset, TimerVars, remAtFreeze, lastSync>>

----------------------------------------------------------------------------
\* POST /events/:id/debug-reset

\* The bids left by DELETE FROM bids WHERE event_id = e.
RECURSIVE WithoutEvent(_, _)
WithoutEvent(bs, e) ==
    IF bs = <<>> THEN <<>>
    ELSE IF Head(bs).event = e THEN WithoutEvent(Tail(bs), e)
    ELSE <<Head(bs)>> \o WithoutEvent(Tail(bs), e)

\* A reset that sets the deadline and leaves the pause columns alone.
ResetRowKeepingPause(cur, t) ==
    [cur EXCEPT !.endAt = t + OrElse(cur.dur, DefaultDuration) * MsPerSecond,
                !.elapsed = 0]

ResetRow(cur, t) ==
    [cur EXCEPT !.endAt = t + OrElse(cur.dur, DefaultDuration) * MsPerSecond,
                !.type = "open",
                !.pausedRem = NULL,
                !.elapsed = 0]

\* The bids left by DELETE FROM bids WHERE event_id = $1 when it saw the first
\* seen rows of the table.
AfterDelete(bs, e, seen) ==
    LET n == IF seen <= Len(bs) THEN seen ELSE Len(bs)
    IN WithoutEvent(SubSeq(bs, 1, n), e) \o SubSeq(bs, n + 1, Len(bs))

\* Statements that take effect at once, as outside a transaction.
Autocommitted(stored, written) == written

\* What the other connections see of the statements of the open transaction
\* (client.query after BEGIN): nothing before COMMIT.
Uncommitted(stored, written) == stored

ResetVars == <<now, storeUp, hBid, hPause, hResume, TimerVars, lastSync>>

\* A statement of the transaction failed: ROLLBACK, release, the 500 response.
ResetRollback ==
    /\ hReset' = Idle
    /\ out' = <<Res(500)>>
    /\ UNCHANGED <<events, bids, remAtFreeze, lastSync>>

\* The role check, pool.connect() and BEGIN.
ResetBegin(u, e) ==
    /\ hReset.pc = "idle"
    /\ IF RoleOf(u) # "manager" THEN out' = <<Res(403)>> /\ UNCHANGED hReset
       ELSE IF ~storeUp THEN out' = <<Res(500)>> /\ UNCHANGED hReset
       ELSE /\ hReset' = [pc |-> "delete", e |-> e, seen |-> 0, at |-> NULL]
            /\ out' = <<>>
    /\ UNCHANGED <<events, bids, remAtFreeze, ResetVars>>

\* DELETE FROM bids WHERE event_id = $1
ResetDelete ==
    /\ hReset.pc = "delete"
    /\ IF ~storeUp THEN ResetRollback
       ELSE /\ hReset' = [hReset EXCEPT !.pc = "select", !.seen = Len(bids)]
            /\ bids' = Uncommitted(bids, AfterDelete(bids, hReset.e, Len(bids)))
            /\ out' = <<>>
            /\ UNCHANGED <<events, remAtFreeze, lastSync>>
    /\ UNCHANGED ResetVars

\* SELECT duration_seconds; then now = new Date() and the UPDATE is sent.
ResetSelect ==
    /\ hReset.pc = "select"
    /\ IF ~storeUp THEN ResetRollback
       ELSE /\ hReset' = [hReset EXCEPT !.pc = "update", !.at = now]
            /\ out' = <<>>
            /\ UNCHANGED <<events, bids, remAtFreeze, lastSync>>
    /\ UNCHANGED ResetVars

\* UPDATE events SET auction_time, auction_end_time, type, is_paused,
\* paused_time_remaining, elapsed_seconds
ResetUpdate ==
    /\ hReset.pc = "update"
    /\ IF ~storeUp THEN ResetRollback
       ELSE /\ hReset' = [hReset EXCEPT !.pc = "commit"]
            /\ events' = Uncommitted(events,
                                     UpdateRow(hReset.e, ResetRow(events[hReset.e], hReset.at)))
            /\ out' = <<>>
            /\ UNCHANGED <<bids, remAtFreeze, lastSync>>
    /\ UNCHANGED ResetVars

\* COMMIT, then the auction_reset broadcast and the response.
ResetCommit ==
    /\ hReset.pc = "commit"
    /\ IF ~storeUp THEN ResetRollback
       ELSE /\ hReset' = Idle
            /\ bids' = AfterDelete(bids, hReset.e, hReset.seen)
            /\ events' = UpdateRow(hReset.e, ResetRow(events[hReset.e], hReset.at))
            /\ remAtFreeze' = [remAtFreeze EXCEPT ![hReset.e] = NULL]
            /\ out' = <<Msg(EventRoom(hReset.e), "auction_reset", hReset.e), Res(200)>>
    /\ UNCHANGED ResetVars

----------------------------------------------------------------------------
\* Bid submission.  hBid.ev is the event row the HTTP handlers read first and
\* hBid.at the `now` of their extension check.  The socket handler reads no
\* event row: its hBid.at and hBid.rowAt are history, the time of its INSERT
\* (the bid's created_at) and the event row stored at that moment.

BidRow(e, u, item, t) ==
    [event |-> e, user |-> u, li |-> item.li, amount |-> item.amount, at |-> t]

BidUpdateMsg(e, u, item) ==
    Msg(EventRoom(e), "bid_update", [user |-> u, li |-> item.li, amount |-> item.amount])

\* if (event && event.auction_end_time && event.type !== 'paused')
\*   timeRemaining = (endTime - now) / 1000
\*   if (timeRemaining > 0 && timeRemaining <= (event.extension_threshold || 60))
ExtensionDue(ev, t) ==
    /\ ev.present
    /\ ev.endAt # NULL
    /\ ev.type # "paused"
    /\ ev.endAt - t > 0
    /\ ev.endAt - t <= OrElse(ev.thr, DefaultExtensionThreshold) * MsPerSecond

\* new Date(now.getTime() + (event.extension_time || 120) * 1000)
ExtendedEnd(ev, t) == t + OrElse(ev.ext, DefaultExtensionTime) * MsPerSecond

\* INSERT INTO bids: bids.event_id references events(id).
InsertOk(e) == storeUp /\ events[e].present

BidVars == <<now, storeUp, hPause, hResume, hReset, TimerVars, lastSync>>

\* POST /events/:id/bids: validation and the SELECT of the event row.
BidRead(u, e, li, amt) ==
    /\ hBid.pc = "idle"
    /\ Len(bids) < MaxBids
    /\ IF ~Truthy(amt) \/ IsNaN(amt) THEN out' = <<Res(400)>> /\ UNCHANGED hBid
       ELSE IF ~storeUp THEN out' = <<Res(500)>> /\ UNCHANGED hBid
       ELSE /\ hBid' = [pc |-> "insert", path |-> "single", e |-> e, user |-> u,
                        items |-> << [li |-> li, amount |-> amt] >>, k |-> 1,
                        ev |-> BidCols(events[e]), at |-> NULL, newEnd |-> NULL]
            /\ out' = <<>>
    /\ UNCHANGED <<events, bids, remAtFreeze, BidVars>>

\* The INSERT of the bid.
BidInsert ==
    /\ hBid.pc = "insert" /\ hBid.path = "single"
    /\ IF ~InsertOk(hBid.e)
       THEN hBid' = Idle /\ out' = <<Res(500)>> /\ UNCHANGED <<bids, remAtFreeze, lastSync>>
       ELSE /\ bids' = Append(bids, BidRow(hBid.e, hBid.user, hBid.items[1], now))
            /\ hBid' = [hBid EXCEPT !.pc = "check"]
            /\ remAtFreeze' = [remAtFreeze EXCEPT ![hBid.e] = NULL]
            /\ out' = <<>>
    /\ UNCHANGED <<events, BidVars>>

\* The SELECT of the user's names, then the extension check on the row read
\* at the start; without an extension, the bid_update broadcast and the response.
BidCheck ==
    /\ hBid.pc = "check" /\ hBid.path = "single"
    /\ IF ~storeUp THEN hBid' = Idle /\ out' = <<Res(500)>>
       ELSE IF ExtensionDue(hBid.ev, now)
       THEN /\ hBid' = [hBid EXCEPT !.pc = "update", !.at = now,
                                    !.newEnd = ExtendedEnd(hBid.ev, now)]
            /\ out' = <<>>
       ELSE /\ hBid' = Idle
            /\ out' = <<BidUpdateMsg(hBid.e, hBid.user, hBid.items[1]), Res(200)>>
    /\ UNCHANGED <<events, bids, remAtFreeze, BidVars>>

\* The UPDATE of auction_end_time, then auction_extended, bid_update, the response.
BidUpdate ==
    /\ hBid.pc = "update" /\ hBid.path = "single"
    /\ hBid' = Idle
    /\ IF ~storeUp THEN out' = <<Res(500)>> /\ UNCHANGED events
       ELSE /\ events' = UpdateRow(hBid.e, [events[hBid.e] EXCEPT !.endAt = hBid.newEnd])
            /\ out' = << Msg(EventRoom(hBid.e), "auction_extended",
                             [newEndTime |-> hBid.newEnd,
                              extensionTime |-> OrElse(hBid.ev.ext, DefaultExtensionTime)]),
                         BidUpdateMsg(hBid.e, hBid.user, hBid.items[1]),
                         Res(200) >>
    /\ UNCHANGED <<bids, remAtFreeze, BidVars>>

\* POST /events/:id/bids/bulk: validation, the SELECT of the event row and of the user.
\* The items the loop does not skip: if (!line_item_id || isNaN(amount)) continue
RECURSIVE BulkAccepted(_)
BulkAccepted(items) ==
    IF items = <<>> THEN <<>>
    ELSE IF ~Truthy(Head(items).li) \/ IsNaN(Head(items).amount)
         THEN BulkAccepted(Tail(items))
         ELSE <<Head(items)>> \o BulkAccepted(Tail(items))

BulkRead(u, e, items) ==
    /\ hBid.pc = "idle"
    /\ Len(bids) + Len(items) <= MaxBids
    /\ IF items = <<>> THEN out' = <<Res(400)>> /\ UNCHANGED hBid
       ELSE IF ~storeUp THEN out' = <<Res(500)>> /\ UNCHANGED hBid
       ELSE /\ hBid' = [pc |-> IF BulkAccepted(items) = <<>> THEN "total" ELSE "insert",
                        path |-> "bulk", e |-> e, user |-> u,
                        items |-> BulkAccepted(items), k |-> 1,
                        ev |-> BidCols(events[e]), at |-> NULL, newEnd |-> NULL]
            /\ out' = <<>>
    /\ UNCHANGED <<events, bids, remAtFreeze, BidVars>>

\* One turn of the loop: the INSERT of item k and its bid_update broadcast.
BulkInsert ==
    /\ hBid.pc = "insert" /\ hBid.path = "bulk"
    /\ IF ~InsertOk(hBid.e)
       THEN hBid' = Idle /\ out' = <<Res(500)>> /\ UNCHANGED <<bids, remAtFreeze, lastSync>>
       ELSE /\ bids' = Append(bids, BidRow(hBid.e, hBid.user, hBid.items[hBid.k], now))
            /\ hBid' = [hBid EXCEPT !.pc = IF hBid.k = Len(hBid.items) THEN "total" ELSE "insert",
                                    !.k = hBid.k + 1]
            /\ remAtFreeze' = [remAtFreeze EXCEPT ![hBid.e] = NULL]
            /\ out' = <<BidUpdateMsg(hBid.e, hBid.user, hBid.items[hBid.k])>>
    /\ UNCHANGED <<events, BidVars>>

\* The SELECT of the bidder's total and its broadcast, then the extension check.
BulkTotal ==
    /\ hBid.pc = "total" /\ hBid.path = "bulk"
    /\ LET inserted == Len(hBid.items)
           total == IF inserted > 0
                    THEN <<Msg(EventRoom(hBid.e), "bidder_total_update", hBid.user)>>
                    ELSE <<>>
       IN IF inserted > 0 /\ ~storeUp THEN hBid' = Idle /\ out' = <<Res(500)>>
          ELSE IF ExtensionDue(hBid.ev, now)
          THEN /\ hBid' = [hBid EXCEPT !.pc = "update", !.at = now,
                                    !.newEnd = ExtendedEnd(hBid.ev, now)]
               /\ out' = total
          ELSE /\ hBid' = Idle
               /\ out' = total \o <<Res(200)>>
    /\ UNCHANGED <<events, bids, remAtFreeze, BidVars>>

\* The UPDATE of auction_end_time, then auction_extended and the response.
BulkUpdate ==
    /\ hBid.pc = "update" /\ hBid.path = "bulk"
    /\ hBid' = Idle
    /\ IF ~storeUp THEN out' = <<Res(500)>> /\ UNCHANGED events
       ELSE /\ events' = UpdateRow(hBid.e, [events[hBid.e] EXCEPT !.endAt = hBid.newEnd])
            /\ out' = << Msg(EventRoom(hBid.e), "auction_extended",
                             [newEndTime |-> hBid.newEnd,
                              extensionTime |-> OrElse(hBid.ev.ext, DefaultExtensionTime)]),
                         Res(200) >>
    /\ UNCHANGED <<bids, remAtFreeze, BidVars>>

\* socket.on("new_bid") of socket-messaging.js: validation and the INSERT.
SockInsert(u, e, li, amt) ==
    /\ hBid.pc = "idle"
    /\ Len(bids) < MaxBids
    /\ out' = <<>>
    /\ IF ~Truthy(amt) \/ IsNaN(amt) \/ ~InsertOk(e)
       THEN UNCHANGED <<hBid, bids, remAtFreeze, lastSync>>
       ELSE /\ bids' = Append(bids, BidRow(e, u, [li |-> li, amount |-> amt], now))
            /\ hBid' = [pc |-> "emit", path |-> "socket", e |-> e, user |-> u,
                        items |-> << [li |-> li, amount |-> amt] >>, k |-> 1,
                        at |-> now, rowAt |-> BidCols(events[e])]
            /\ remAtFreeze' = [remAtFreeze EXCEPT ![e] = NULL]
    /\ UNCHANGED <<events, BidVars>>

\* The SELECT of the user's names and the bid_update broadcast.
SockEmit ==
    /\ hBid.pc = "emit" /\ hBid.path = "socket"
    /\ hBid' = Idle
    /\ out' = IF storeUp THEN <<BidUpdateMsg(hBid.e, hBid.user, hBid.items[1])>> ELSE <<>>
    /\ UNCHANGED <<events, bids, remAtFreeze, BidVars>>

----------------------------------------------------------------------------
\* socket-auction-timer.js.  A client names the event by the value it sends in
\* join_event: the number 1 or the string "1".  activeTimers is a Map, whose
\* keys are compared by value and type; the room name `event_${eventId}` and
\* the SQL parameter are the same for both.

Reps == {"num", "str"}
Keys == EventIds \X Reps
Sockets == {"s1", "s2"}

\* socket.user of a connection: the user of the token it presented.
UserOf(sock) == IF sock = "s1" THEN "b1" ELSE "b2"

EventOf(key) == key[1]
\* `event_${eventId}`
RoomOf(key) == EventRoom(EventOf(key))

NoTimer == [on |-> FALSE, fired |-> NULL]

\* The history of a key whose time_sync are not recorded, and that of a key
\* whose time_sync are, before the first one.
NoSync == [at |-> NULL, elapsed |-> NULL]
NoSyncYet == [at |-> 0, elapsed |-> 0]

\* The record of the time_sync callback c emits; a time_sync that carries no
\* elapsedSeconds leaves the elapsed of the record as it was.
Synced(c, elapsedSeconds) ==
    IF lastSync[c.key] = NoSync THEN lastSync
    ELSE [lastSync EXCEPT ![c.key] =
            [at |-> c.at,
             elapsed |-> IF elapsedSeconds = NULL THEN lastSync[c.key].elapsed
                         ELSE elapsedSeconds]]

\* activeTimers.has(key)
HasTimer(key) == activeTimers[key].on

\* function startAuctionTimer(eventId); fired is when the interval last fired
\* (or was created).
StartAuctionTimer(timers, key, t) ==
    IF timers[key].on THEN timers
    ELSE [timers EXCEPT ![key] = [on |-> TRUE, fired |-> t]]

\* function stopAuctionTimer(eventId)
StopAuctionTimer(timers, key) ==
    IF timers[key].on THEN [timers EXCEPT ![key] = NoTimer] ELSE timers

\* The callbacks in flight once callback c has ended.  With stop, c called
\* stopAuctionTimer: the other callbacks of an interval it cleared are from then
\* on callbacks of a stopped timer (stale is history, the code keeps no such flag).
Ended(c, stop) ==
    { IF stop /\ HasTimer(c.key) /\ d.key = c.key THEN [d EXCEPT !.stale = TRUE] ELSE d :
        d \in cbs \ {c} }

\* A catch block that gives the timer up.
OnTickErrorStopping(timers, key) == StopAuctionTimer(timers, key)

\* The catch block of the interval callback: console.error, nothing else; the
\* registry is left as it is.
OnTickError(timers, key) == timers

TickErrorLog(c) == Msg("console", "tick_error", c.key)

HandlerVars == <<hBid, hPause, hResume, hReset>>

\* socket.on("join_event")
JoinEvent(sock, key) ==
    /\ rooms' = rooms \cup {<<RoomOf(key), sock>>}
    /\ activeTimers' = StartAuctionTimer(activeTimers, key, now)
    /\ out' = <<>>
    /\ UNCHANGED <<now, storeUp, events, bids, HandlerVars, cbs, remAtFreeze, lastSync>>

\* socket.on("leave_event"): the timer keeps running.
LeaveEvent(sock, key) ==
    /\ <<RoomOf(key), sock>> \in rooms
    /\ rooms' = rooms \ {<<RoomOf(key), sock>>}
    /\ out' = <<>>
    /\ UNCHANGED <<now, storeUp, events, bids, HandlerVars, activeTimers, cbs, remAtFreeze, lastSync>>

\* setInterval(..., 1000) fires: a callback starts and issues its SELECT.
TimerFire(key) ==
    /\ HasTimer(key)
    /\ now >= activeTimers[key].fired + MsPerSecond
    /\ Cardinality(cbs) < MaxInFlight
    /\ activeTimers' = [activeTimers EXCEPT ![key].fired = now]
    /\ cbs' = cbs \cup {[key |-> key, at |-> now, pc |-> "read", stale |-> FALSE,
                         endAt |-> NULL, elapsed |-> NULL]}
    /\ out' = <<>>
    /\ UNCHANGED <<now, storeUp, events, bids, HandlerVars, rooms, remAtFreeze, lastSync>>

\* io.to(`event_${eventId}`).emit("time_sync", ...).  afterStop is history:
\* whether the interval of the emitting callback had been cleared before.
TimeSync(c, secondsRemaining, isPaused, endTime, elapsedSeconds) ==
    Msg(RoomOf(c.key), "time_sync",
        [secondsRemaining |-> secondsRemaining, isPaused |-> isPaused,
         endTime |-> endTime, elapsedSeconds |-> elapsedSeconds,
         afterStop |-> c.stale])

\* The SELECT returns: no row, no end time, paused, or running (then the UPDATE
\* of elapsed_seconds is issued).
CbRead(c) ==
    /\ c \in cbs /\ c.pc = "read"
    /\ LET ev == events[EventOf(c.key)]
       IN IF ~storeUp
          THEN /\ cbs' = Ended(c, FALSE)
               /\ out' = <<TickErrorLog(c)>>
               /\ activeTimers' = OnTickError(activeTimers, c.key)
               /\ UNCHANGED lastSync
          ELSE IF ~ev.present
          THEN /\ cbs' = Ended(c, TRUE)
               /\ activeTimers' = StopAuctionTimer(activeTimers, c.key)
               /\ out' = <<>>
               /\ UNCHANGED lastSync
          ELSE IF ev.endAt = NULL
          THEN /\ cbs' = Ended(c, FALSE)
               /\ out' = <<TimeSync(c, NULL, ev.type = "paused", NULL, NULL)>>
               /\ lastSync' = Synced(c, NULL)
               /\ UNCHANGED activeTimers
          ELSE IF ev.type = "paused"
          THEN /\ cbs' = Ended(c, FALSE)
               /\ out' = <<TimeSync(c, ev.pausedRem, TRUE, ev.endAt, OrElse(ev.elapsed, 0))>>
               /\ lastSync' = Synced(c, OrElse(ev.elapsed, 0))
               /\ UNCHANGED activeTimers
          ELSE /\ cbs' = (cbs \ {c}) \cup
                         {[c EXCEPT !.pc = "update", !.endAt = ev.endAt,
                                    !.elapsed = OrElse(ev.elapsed, 0) + 1]}
               /\ out' = <<>>
               /\ UNCHANGED <<activeTimers, lastSync>>
    /\ UNCHANGED <<now, storeUp, events, bids, HandlerVars, rooms, remAtFreeze>>

\* The UPDATE of elapsed_seconds returns; then the time_sync broadcast and,
\* at secondsRemaining 0, stopAuctionTimer.
CbUpdate(c) ==
    /\ c \in cbs /\ c.pc = "update"
    /\ LET e == EventOf(c.key)
           secondsRemaining == SecondsRemaining(c.endAt, now)
       IN IF ~storeUp
          THEN /\ cbs' = Ended(c, FALSE)
               /\ out' = <<TickErrorLog(c)>>
               /\ activeTimers' = OnTickError(activeTimers, c.key)
               /\ UNCHANGED <<events, lastSync>>
          ELSE /\ events' = UpdateRow(e, [events[e] EXCEPT !.elapsed = c.elapsed])
               /\ out' = <<TimeSync(c, secondsRemaining, FALSE, c.endAt, c.elapsed)>>
               /\ lastSync' = Synced(c, c.elapsed)
               /\ cbs' = Ended(c, secondsRemaining = 0)
               /\ activeTimers' = IF secondsRemaining = 0
                                  THEN StopAuctionTimer(activeTimers, c.key)
                                  ELSE activeTimers
    /\ UNCHANGED <<now, storeUp, bids, HandlerVars, rooms, remAtFreeze>>

\* DELETE /events/:id; the bids of the event go with it (ON DELETE CASCADE).
DeleteEvent(u, e) ==
    /\ IF RoleOf(u) # "manager" THEN out' = <<Res(403)>> /\ UNCHANGED <<events, bids>>
       ELSE IF ~storeUp THEN out' = <<Res(500)>> /\ UNCHANGED <<events, bids>>
       ELSE IF ~(events[e].present /\ u \in TeamOf(e))
            THEN out' = <<Res(403)>> /\ UNCHANGED <<events, bids>>
       ELSE /\ events' = [events EXCEPT ![e] = NoRow]
            /\ bids' = WithoutEvent(bids, e)
            /\ out' = <<Res(200)>>
    /\ UNCHANGED <<now, storeUp, HandlerVars, TimerVars, remAtFreeze, lastSync>>

----------------------------------------------------------------------------
----------------------------------------------------------------------------
\* Rank queries.  The order of the rows in bids is their created_at order.

\* supplier_line_item_settings.opening_bid and bidder_item_assignments, as set
\* up for the event: every bidder is assigned every line item, b2 has an
\* opening bid.
OpeningBid(e, li, u) == IF u = "b2" THEN 20 ELSE NULL

AssignedItems(e, u) == IF events[e].present /\ u \in Bidders THEN LineItems ELSE {}

Coalesce(a, b, c) == IF a # NULL THEN a ELSE IF b # NULL THEN b ELSE c

Reverse(s) == [i \in 1..Len(s) |-> s[Len(s) + 1 - i]]

\* ORDER BY li.id ASC
RECURSIVE Ascending(_)
Ascending(S) ==
    IF S = {} THEN <<>>
    ELSE LET least == CHOOSE x \in S : \A y \in S : x <= y
         IN <<least>> \o Ascending(S \ {least})

\* SELECT amount FROM bids WHERE event_id, user_id, line_item_id
\* ORDER BY created_at DESC LIMIT 1
LatestIndex(e, li, u) ==
    LET own == {i \in DOMAIN bids : bids[i].event = e /\ bids[i].li = li /\ bids[i].user = u}
    IN IF own = {} THEN 0 ELSE CHOOSE i \in own : \A j \in own : j <= i

LatestAmount(e, li, u) ==
    IF LatestIndex(e, li, u) = 0 THEN NULL ELSE bids[LatestIndex(e, li, u)].amount

\* A rank that counts the bids above the user's amount, as in a forward auction.
RankOverHigherBids(e, li, u) ==
    LET amount == Coalesce(LatestAmount(e, li, u), OpeningBid(e, li, u), NoBidAmount)
    IN Cardinality({i \in DOMAIN bids :
                      bids[i].event = e /\ bids[i].li = li /\ bids[i].amount > amount}) + 1

\* SELECT COUNT(*) + 1 FROM bids b2 WHERE b2.event_id, b2.line_item_id
\*   AND b2.amount < COALESCE(latest amount, opening_bid, 999999999)
RankOverBids(e, li, u) ==
    LET amount == Coalesce(LatestAmount(e, li, u), OpeningBid(e, li, u), NoBidAmount)
    IN Cardinality({i \in DOMAIN bids :
                      bids[i].event = e /\ bids[i].li = li /\ bids[i].amount < amount}) + 1

\* SELECT COUNT(*) + 1 FROM (SELECT DISTINCT ON (user_id) ... ORDER BY user_id,
\*   created_at DESC) AS latest_bids WHERE latest_bids.amount < $3
RankOverLatestBids(e, li, amount) ==
    Cardinality({v \in Users : /\ LatestIndex(e, li, v) # 0
                               /\ LatestAmount(e, li, v) < amount}) + 1

QueryVars == <<now, storeUp, events, bids, HandlerVars, TimerVars, remAtFreeze, lastSync>>

\* res.json(...) to the user who sent the request.
Reply(u, type, val) == Msg(<<"res", u>>, type, val)

\* GET /events/:id/line-items/:lineItemId/rank
GetRank(u, e, li) ==
    /\ out' = IF ~storeUp THEN <<Res(500)>>
              ELSE <<Reply(u, "rank",
                         [e |-> e, li |-> li, user |-> u,
                          amount |-> Coalesce(LatestAmount(e, li, u), OpeningBid(e, li, u),
                                              NoBidAmount),
                          rank |-> RankOverBids(e, li, u)])>>
    /\ UNCHANGED QueryVars

\* GET /events/:id/bidder-lineitems
BidderLineItems(u, e) ==
    /\ out' = IF ~storeUp THEN <<Res(500)>>
              ELSE LET items == Ascending(AssignedItems(e, u))
                   IN <<Reply(u, "lineitems",
                            [i \in DOMAIN items |->
                               [e |-> e, li |-> items[i], user |-> u,
                                current_bid |-> Coalesce(LatestAmount(e, items[i], u),
                                                         OpeningBid(e, items[i], u), NULL),
                                amount |-> Coalesce(LatestAmount(e, items[i], u),
                                                    OpeningBid(e, items[i], u), NoBidAmount),
                                rank |-> RankOverBids(e, items[i], u)]])>>
    /\ UNCHANGED QueryVars

\* The indexes in bs of the bids of the event, ORDER BY created_at DESC.
BidsDesc(bs, e) == Reverse(Ascending({i \in DOMAIN bs : bs[i].event = e}))

EventBidsDesc(e) == BidsDesc(bids, e)

\* first_name, last_name, email and organisation_name of the users row joined
\* to a bid.
ProfileOf(u) == <<"profile", u>>

\* nameMap and counter after the first n turns of the masking loop:
\*   if (!nameMap[b.bidder_id]) nameMap[b.bidder_id] = `Company ${String.fromCharCode(65 + counter++)}`
\* A label is held as the character code of its letter.
RECURSIVE NameMap(_, _, _)
NameMap(bs, rows, n) ==
    IF n = 0 THEN [map |-> [u \in Users |-> NULL], counter |-> 0]
    ELSE LET prev == NameMap(bs, rows, n - 1)
             u == bs[rows[n]].user
         IN IF prev.map[u] = NULL
            THEN [map |-> [prev.map EXCEPT ![u] = 65 + prev.counter],
                  counter |-> prev.counter + 1]
            ELSE prev

\* A label taken from the position of the row in the result.
CompanyLabelByRow(bs, rows, i) == <<"Company", 65 + i - 1>>

\* b.display_name = nameMap[b.bidder_id]
CompanyLabel(bs, rows, i) == <<"Company", NameMap(bs, rows, i).map[bs[rows[i]].user]>>

\* The rows of bidsQuery with the display_name the manager branch gives them;
\* every row keeps user_id (bidder_id), the names, email and organisation.
NamedRows(bs, e, masked) ==
    LET rows == BidsDesc(bs, e)
    IN [k \in DOMAIN rows |->
          [e |-> e, li |-> bs[rows[k]].li, user |-> bs[rows[k]].user,
           profile |-> ProfileOf(bs[rows[k]].user),
           amount |-> bs[rows[k]].amount,
           display_name |-> IF masked THEN CompanyLabel(bs, rows, k)
                            ELSE <<"name", bs[rows[k]].user>>]]

\* GET /events/:id/bids
BidsView(u, e) ==
    /\ out' =
         IF ~storeUp THEN <<Res(500)>>
         ELSE IF ~events[e].present THEN <<Res(404)>>
         ELSE LET own == SelectSeq(EventBidsDesc(e), LAMBDA i : bids[i].user = u)
                  masked == MaskedView(events[e])
              IN IF RoleOf(u) = "bidder"
                 THEN <<Reply(u, "bids",
                            [k \in DOMAIN own |->
                               [e |-> e, li |-> bids[own[k]].li, user |-> u,
                                profile |-> ProfileOf(u),
                                amount |-> bids[own[k]].amount,
                                latest |-> own[k] = LatestIndex(e, bids[own[k]].li, u),
                                rank |-> RankOverLatestBids(e, bids[own[k]].li,
                                                            bids[own[k]].amount)]])>>
                 ELSE <<Reply(u, "bids", NamedRows(bids, e, masked))>>
    /\ UNCHANGED QueryVars

----------------------------------------------------------------------------
\* server.js: the handlers the single-file server defines for the same tables.

\* socket.on("new_bid"): no validation, user_id taken from the message; the
\* INSERT, then the bid_update broadcast.  The INSERT rejects a missing amount
\* (NOT NULL), an amount that is no number and an event_id without a row.
LegacyNewBid(u, e, li, amt) ==
    /\ Len(bids) < MaxRankBids
    /\ IF ~InsertOk(e) \/ ~NumericOk(amt)
       THEN out' = <<>> /\ UNCHANGED <<bids, remAtFreeze, lastSync>>
       ELSE /\ bids' = Append(bids, BidRow(e, u, [li |-> li, amount |-> amt], now))
            /\ remAtFreeze' = [remAtFreeze EXCEPT ![e] = NULL]
            /\ out' = <<BidUpdateMsg(e, u, [li |-> li, amount |-> amt])>>
    /\ UNCHANGED <<now, storeUp, events, HandlerVars, TimerVars, lastSync>>

\* app.patch("/events/:id/pause"): the role check, UPDATE type = 'paused', the
\* broadcast.  A rejected UPDATE is an unhandled rejection: no response.
LegacyPause(u, e) ==
    /\ IF RoleOf(u) # "manager" THEN out' = <<Res(403)>> /\ UNCHANGED events
       ELSE IF ~storeUp THEN out' = <<>> /\ UNCHANGED events
       ELSE /\ events' = UpdateRow(e, [events[e] EXCEPT !.type = "paused"])
            /\ out' = <<Msg(EventRoom(e), "auction_paused", <<>>), Res(200)>>
    /\ UNCHANGED <<now, storeUp, bids, HandlerVars, TimerVars, remAtFreeze, lastSync>>

\* app.patch("/events/:id/resume")
LegacyResume(u, e) ==
    /\ IF RoleOf(u) # "manager" THEN out' = <<Res(403)>> /\ UNCHANGED events
       ELSE IF ~storeUp THEN out' = <<>> /\ UNCHANGED events
       ELSE /\ events' = UpdateRow(e, [events[e] EXCEPT !.type = "open"])
            /\ out' = <<Msg(EventRoom(e), "auction_resumed", <<>>), Res(200)>>
    /\ UNCHANGED <<now, storeUp, bids, HandlerVars, TimerVars, remAtFreeze, lastSync>>

\* app.get("/events/:id/bids"): every bid of the event for any role, masked
\* for a sealed, unrevealed event when the caller is no manager.
LegacyBidsView(u, e) ==
    /\ out' =
         IF ~storeUp THEN <<Res(500)>>
         ELSE IF ~events[e].present THEN <<Res(404)>>
         ELSE <<Reply(u, "bids",
                      NamedRows(bids, e, /\ events[e].type = "sealed"
                                         /\ ~events[e].reveal
                                         /\ RoleOf(u) # "manager"))>>
    /\ UNCHANGED QueryVars

\* app.get("/events/:eventId/line-items/:lineItemId/rank")
LegacyGetRank(u, e, li) ==
    /\ out' =
         IF RoleOf(u) # "bidder" THEN <<Res(403)>>
         ELSE IF ~storeUp THEN <<Res(500)>>
         ELSE IF LatestIndex(e, li, u) = 0
         THEN <<Reply(u, "rank", [e |-> e, li |-> li, user |-> u,
                                  amount |-> NULL, rank |-> NULL])>>
         ELSE <<Reply(u, "rank",
                      [e |-> e, li |-> li, user |-> u,
                       amount |-> LatestAmount(e, li, u),
                       rank |-> RankOverLatestBids(e, li, LatestAmount(e, li, u))])>>
    /\ UNCHANGED QueryVars

----------------------------------------------------------------------------
Init ==
    /\ now = 0
    /\ storeUp = TRUE
    /\ \E c \in Configs, ty \in Types :
          events = [e \in EventIds |-> IF e = 1 THEN NewRow(c, ty) ELSE NoRow]
    /\ bids = <<>>
    /\ hBid = Idle
    /\ hPause = Idle
    /\ hResume = Idle
    /\ hReset = Idle
    /\ activeTimers = [k \in Keys |-> NoTimer]
    /\ rooms = {}
    /\ cbs = {}
    /\ out = <<>>
    /\ remAtFreeze = [e \in EventIds |-> NULL]
    /\ lastSync = [k \in Keys |-> NoSync]

\* auction_end_time values a client sends to initialize-end-time.
EndTimes == {1000, 2000}
Amounts == {10}
BulkItems == { <<[li |-> 1, amount |-> a]>> : a \in Amounts }

\* No handler of the supervisor is in flight.
NoneInFlight ==
    hBid.pc = "idle" /\ hPause.pc = "idle" /\ hResume.pc = "idle" /\ hReset.pc = "idle"

\* The supervisor: bid submission, pause, resume, reset and initialize-end-time,
\* with requests that arrive one at a time (a request is handled to its end
\* before the next arrives) while the wall clock runs on between their awaits.
Next ==
    \/ AdvanceClock
    \/ \E u \in Managers, e \in EventIds : NoneInFlight /\ PauseRead(u, e)
    \/ PauseWrite
    \/ \E u \in Managers, e \in EventIds : NoneInFlight /\ ResumeRead(u, e)
    \/ ResumeWrite
    \/ \E e \in EventIds, t \in EndTimes : NoneInFlight /\ InitEndTime(e, t)
    \/ \E u \in Managers, e \in EventIds : NoneInFlight /\ ResetBegin(u, e)
    \/ ResetDelete
    \/ ResetSelect
    \/ ResetUpdate
    \/ ResetCommit
    \/ \E e \in EventIds, li \in LineItems, a \in Amounts : NoneInFlight /\ BidRead("b1", e, li, a)
    \/ BidInsert
    \/ BidCheck
    \/ BidUpdate
    \/ \E e \in EventIds, items \in BulkItems : NoneInFlight /\ BulkRead("b1", e, items)
    \/ BulkInsert
    \/ BulkTotal
    \/ BulkUpdate
    \/ \E e \in EventIds, li \in LineItems, a \in Amounts : NoneInFlight /\ SockInsert("b1", e, li, a)
    \/ SockEmit

Spec == Init /\ [][Next]_vars

\* The clocks of event 1, an open event with the default settings: clients join
\* and leave its room, naming it by either representation of its id; the
\* intervals fire and their callbacks run beside each other; the store fails and
\* recovers; the event is given a deadline, paused or deleted.
InitTimer ==
    /\ Init
    /\ events[1] = NewRow([thr |-> NULL, ext |-> NULL, dur |-> NULL], "open")

TimerKeys == {1} \X Reps

NextTimer ==
    \/ AdvanceClock
    \/ StoreFail
    \/ StoreRecover
    \/ \E key \in TimerKeys : JoinEvent("s1", key)
    \/ \E key \in TimerKeys : LeaveEvent("s1", key)
    \/ \E key \in TimerKeys : TimerFire(key)
    \/ \E c \in cbs : CbRead(c)
    \/ \E c \in cbs : CbUpdate(c)
    \/ \E t \in EndTimes : InitEndTime(1, t)
    \/ PauseRead("m1", 1)
    \/ PauseWrite
    \/ DeleteEvent("m1", 1)

SpecTimer == InitTimer /\ [][NextTimer]_vars

\* One timer through a store outage that is over by OutageEnd: the store does
\* not fail in the last clock step before OutageEnd and the clock does not pass
\* OutageEnd while it is down.
OutageEnd == MaxTime - MsPerSecond - ClockStep

LiveKey == <<1, "num">>

NextLive ==
    \/ (storeUp \/ now + ClockStep <= OutageEnd) /\ AdvanceClock
    \/ now + ClockStep <= OutageEnd /\ StoreFail
    \/ StoreRecover
    \/ JoinEvent("s1", LiveKey)
    \/ TimerFire(LiveKey)
    \/ \E c \in cbs : CbRead(c)
    \/ \E c \in cbs : CbUpdate(c)
    \/ \E t \in EndTimes : InitEndTime(1, t)

\* The clock advances, setInterval fires, every query settles (resolves or
\* rejects), and the outage ends.
SpecLive ==
    /\ InitTimer
    /\ [][NextLive]_vars
    /\ WF_vars((storeUp \/ now + ClockStep <= OutageEnd) /\ AdvanceClock)
    /\ WF_vars(StoreRecover)
    /\ WF_vars(TimerFire(LiveKey))
    /\ WF_vars(\E c \in cbs : CbRead(c))
    /\ WF_vars(\E c \in cbs : CbUpdate(c))


\* The rank queries over bid histories of event 1: up to MaxRankBids bids of
\* the bidders on line item 1, in created_at order.
RankAmounts == {10, 20, 30}

Histories ==
    UNION { [1..n -> { [event |-> 1, user |-> u, li |-> 1, amount |-> a, at |-> 0] :
                          u \in Bidders, a \in RankAmounts }] : n \in 0..MaxRankBids }

InitRank ==
    /\ now = 0
    /\ storeUp = TRUE
    /\ \E ty \in Types :
          events = [e \in EventIds |->
                      IF e = 1 THEN NewRow([thr |-> NULL, ext |-> NULL, dur |-> NULL], ty)
                      ELSE NoRow]
    /\ bids \in Histories
    /\ hBid = Idle
    /\ hPause = Idle
    /\ hResume = Idle
    /\ hReset = Idle
    /\ activeTimers = [k \in Keys |-> NoTimer]
    /\ rooms = {}
    /\ cbs = {}
    /\ out = <<>>
    /\ remAtFreeze = [e \in EventIds |-> NULL]
    /\ lastSync = [k \in Keys |-> NoSync]

\* The users who send the queries: the bidders and a manager.
Requesters == Bidders \cup {"m1"}

NextRank ==
    \/ \E u \in Requesters, e \in EventIds, li \in LineItems : GetRank(u, e, li)
    \/ \E u \in Requesters, e \in EventIds : BidderLineItems(u, e)
    \/ \E u \in Requesters, e \in EventIds : BidsView(u, e)
    \/ \E u \in Requesters, e \in EventIds, li \in LineItems : LegacyGetRank(u, e, li)
    \/ \E u \in Bidders, li \in LineItems, a \in RankAmounts : LegacyNewBid(u, 1, li, a)

SpecRank == InitRank /\ [][NextRank]_vars

\* The bid lists of event 1 over bid histories of three users, with clients
\* in the event room and bids coming in.
ViewUsers == Bidders \cup {"m1"}

ViewHistories ==
    UNION { [1..n -> { [event |-> 1, user |-> u, li |-> 1, amount |-> 10, at |-> 0] :
                          u \in ViewUsers }] : n \in 0..MaxRankBids }

InitView ==
    /\ now = 0
    /\ storeUp = TRUE
    /\ \E ty \in Types :
          events = [e \in EventIds |->
                      IF e = 1 THEN NewRow([thr |-> NULL, ext |-> NULL, dur |-> NULL], ty)
                      ELSE NoRow]
    /\ bids \in ViewHistories
    /\ hBid = Idle
    /\ hPause = Idle
    /\ hResume = Idle
    /\ hReset = Idle
    /\ activeTimers = [k \in Keys |-> NoTimer]
    /\ rooms = {}
    /\ cbs = {}
    /\ out = <<>>
    /\ remAtFreeze = [e \in EventIds |-> NULL]
    /\ lastSync = [k \in Keys |-> NoSync]

NextView ==
    \/ \E u \in Users, e \in EventIds : BidsView(u, e)
    \/ \E u \in Users, e \in EventIds : LegacyBidsView(u, e)
    \/ \E sock \in Sockets : JoinEvent(sock, <<1, "num">>)
    \/ \E u \in ViewUsers : NoneInFlight /\ BidRead(u, 1, 1, 10)
    \/ BidInsert
    \/ BidCheck

SpecView == InitView /\ [][NextView]_vars

----------------------------------------------------------------------------
\* Pause and resume as both servers expose them, called by every user, with
\* the store going down and coming back.
NextPause ==
    \/ AdvanceClock
    \/ StoreFail
    \/ StoreRecover
    \/ \E e \in EventIds, t \in EndTimes : NoneInFlight /\ InitEndTime(e, t)
    \/ \E u \in Users, e \in EventIds : NoneInFlight /\ PauseRead(u, e)
    \/ PauseWrite
    \/ \E u \in Users, e \in EventIds : NoneInFlight /\ ResumeRead(u, e)
    \/ ResumeWrite
    \/ \E u \in Users, e \in EventIds : NoneInFlight /\ LegacyPause(u, e)
    \/ \E u \in Users, e \in EventIds : NoneInFlight /\ LegacyResume(u, e)

SpecPause == Init /\ [][NextPause]_vars

----------------------------------------------------------------------------
\* The reset of an event that holds bids, by every user, with the store going
\* down and coming back between the statements of the transaction.
NextReset ==
    \/ AdvanceClock
    \/ StoreFail
    \/ StoreRecover
    \/ \E u \in Users, e \in EventIds : NoneInFlight /\ ResetBegin(u, e)
    \/ ResetDelete
    \/ ResetSelect
    \/ ResetUpdate
    \/ ResetCommit

SpecReset == InitView /\ [][NextReset]_vars

----------------------------------------------------------------------------
\* Every bid-accepting path, fed every kind of amount: a positive one, zero,
\* a negative one, one that is no number, and none (NULL).
InputAmounts == {10, 0, NegativeAmount, NotANumber, NULL}

InputBulks ==
    { <<[li |-> 1, amount |-> a]>> : a \in InputAmounts }
    \cup { <<[li |-> 1, amount |-> a], [li |-> 2, amount |-> 10]>> : a \in InputAmounts }

NextBidInput ==
    \/ \E e \in EventIds, a \in InputAmounts : NoneInFlight /\ BidRead("b1", e, 1, a)
    \/ BidInsert
    \/ BidCheck
    \/ \E e \in EventIds, items \in InputBulks : NoneInFlight /\ BulkRead("b1", e, items)
    \/ BulkInsert
    \/ BulkTotal
    \/ \E e \in EventIds, a \in InputAmounts : NoneInFlight /\ SockInsert("b1", e, 1, a)
    \/ SockEmit
    \/ \E e \in EventIds, a \in InputAmounts : NoneInFlight /\ LegacyNewBid("b2", e, 1, a)

SpecBidInput == Init /\ [][NextBidInput]_vars

----------------------------------------------------------------------------
\* Connections.  Besides the sockets that present a valid token there is one
\* that presents none (or one that jwt.verify rejects).
Connections == Sockets \cup {"anon"}

\* socket.handshake.auth.token is there and verifies.
HasToken(sock) == sock \in Sockets

\* The room socket.io puts every connected socket in, and that of a user and a lot.
SocketRoom(sock) == <<"socket", sock>>
UserRoom(u) == <<"user", u>>
LotRoom(lot) == <<"lot", lot>>

Connected(sock) == <<SocketRoom(sock), sock>> \in rooms

\* The same for the connections of server.js.
LegacySocketRoom(sock) == <<"legacy", sock>>
LegacyConnected(sock) == <<LegacySocketRoom(sock), sock>> \in rooms

ConnVars == <<now, storeUp, events, bids, HandlerVars, activeTimers, cbs, remAtFreeze, lastSync>>

\* io.on("connection") of socket-messaging.js: without a valid token
\* socket.disconnect(), else socket.join(`user_${decoded.id}`).
Connect(sock) ==
    /\ ~Connected(sock) /\ ~LegacyConnected(sock)
    /\ rooms' = IF HasToken(sock)
                THEN rooms \cup {<<SocketRoom(sock), sock>>, <<UserRoom(UserOf(sock)), sock>>}
                ELSE rooms
    /\ out' = <<>>
    /\ UNCHANGED ConnVars

\* io.on("connection") of server.js: no token is asked for.
LegacyConnect(sock) ==
    /\ ~Connected(sock) /\ ~LegacyConnected(sock)
    /\ rooms' = rooms \cup {<<LegacySocketRoom(sock), sock>>}
    /\ out' = <<>>
    /\ UNCHANGED ConnVars

\* socket.on("join_event") of server.js
LegacyJoinEvent(sock, e) ==
    /\ LegacyConnected(sock)
    /\ rooms' = rooms \cup {<<EventRoom(e), sock>>}
    /\ out' = <<Msg(EventRoom(e), "bidders_count_update", <<>>)>>
    /\ UNCHANGED ConnVars

\* socket.on("join_lot") of server.js
LegacyJoinLot(sock, lot) ==
    /\ LegacyConnected(sock)
    /\ rooms' = rooms \cup {<<LotRoom(lot), sock>>}
    /\ out' = <<>>
    /\ UNCHANGED ConnVars

\* Connections to either server and the joins they send; a socket that was
\* disconnected has none of its messages handled.
NextConnect ==
    \/ \E sock \in Connections : Connect(sock)
    \/ \E sock \in Connections : LegacyConnect(sock)
    \/ \E sock \in Connections, key \in TimerKeys : Connected(sock) /\ JoinEvent(sock, key)
    \/ \E sock \in Connections : LegacyJoinEvent(sock, 1)
    \/ \E sock \in Connections : LegacyJoinLot(sock, 1)

SpecConnect == Init /\ [][NextConnect]_vars

----------------------------------------------------------------------------
\* One timer whose callbacks overlap one another and a pause or a resume; the
\* time_sync it emits are recorded.
InitTicks ==
    /\ now = 0
    /\ storeUp = TRUE
    /\ events = [e \in EventIds |->
                   IF e = 1 THEN NewRow([thr |-> NULL, ext |-> NULL, dur |-> NULL], "open")
                   ELSE NoRow]
    /\ bids = <<>>
    /\ hBid = Idle
    /\ hPause = Idle
    /\ hResume = Idle
    /\ hReset = Idle
    /\ activeTimers = [k \in Keys |-> NoTimer]
    /\ rooms = {}
    /\ cbs = {}
    /\ out = <<>>
    /\ remAtFreeze = [e \in EventIds |-> NULL]
    /\ lastSync = [k \in Keys |-> IF k = LiveKey THEN NoSyncYet ELSE NoSync]

NextTicks ==
    \/ AdvanceClock
    \/ JoinEvent("s1", LiveKey)
    \/ TimerFire(LiveKey)
    \/ \E c \in cbs : CbRead(c)
    \/ \E c \in cbs : CbUpdate(c)
    \/ \E t \in EndTimes : InitEndTime(1, t)
    \/ PauseRead("m1", 1)
    \/ PauseWrite
    \/ ResumeRead("m1", 1)
    \/ ResumeWrite

SpecTicks == InitTicks /\ [][NextTicks]_vars

----------------------------------------------------------------------------
\* The handlers that write an event's timing fields, running concurrently: a
\* bid with its extension, a pause, and the ticks of the event's timer.  The
\* deadline is initialized once.
NextRace ==
    \/ AdvanceClock
    \/ \E t \in EndTimes : events[1].endAt = NULL /\ InitEndTime(1, t)
    \/ BidRead("b1", 1, 1, 10)
    \/ BidInsert
    \/ BidCheck
    \/ BidUpdate
    \/ PauseRead("m1", 1)
    \/ PauseWrite
    \/ JoinEvent("s1", LiveKey)
    \/ TimerFire(LiveKey)
    \/ \E c \in cbs : CbRead(c)
    \/ \E c \in cbs : CbUpdate(c)

SpecRace == InitTimer /\ [][NextRace]_vars

----------------------------------------------------------------------------
\* Whether a sequence of emits holds one of the given type.
Has(emits, type) == \E i \in DOMAIN emits : emits[i].type = type

Abs(x) == IF x >= 0 THEN x ELSE -x

C2_NoBidWhilePaused ==
    [][ /\ Len(bids') > Len(bids) => events[bids'[Len(bids')].event].type # "paused"
        /\ \A i \in DOMAIN out' :
              out'[i].type = "bid_update" => events[out'[i].room[2]].type # "paused"
      ]_vars

\* C3 (as claimed): when the handling of an accepted bid ends, for an event
\* that was not paused and had a deadline at submission: with more than the
\* threshold remaining endAt is what it was, and with 0 < remaining <= threshold
\* endAt is submission time + extensionSeconds; on the single, the bulk and the
\* socket path.
C3_ExtensionExactlyInWindow ==
    [][ ( /\ hBid.pc \in {"check", "total", "update", "emit"}
          /\ hBid'.pc = "idle"
          /\ (Has(out', "bid_update") \/ out'[Len(out')] = Res(200)) )
        => LET row == IF hBid.path = "socket" THEN hBid.rowAt ELSE hBid.ev
               t == IF hBid.pc \in {"update", "emit"} THEN hBid.at ELSE now
               remaining == row.endAt - t
               threshold == OrElse(row.thr, DefaultExtensionThreshold) * MsPerSecond
               extension == OrElse(row.ext, DefaultExtensionTime) * MsPerSecond
           IN (row.present /\ row.type # "paused" /\ row.endAt # NULL)
              => /\ remaining > threshold => events'[hBid.e].endAt = row.endAt
                 /\ (0 < remaining /\ remaining <= threshold)
                       => events'[hBid.e].endAt = t + extension
      ]_vars

\* C4 (as claimed): among the emits of one bid submission, auction_extended
\* comes after bid_update, never before it.
C4_ExtendedAfterBidUpdate ==
    \A i, j \in DOMAIN out :
        (out[i].type = "auction_extended" /\ out[j].type = "bid_update") => j < i

\* C5 (as claimed): with no bid in between, secondsRemaining right after a
\* resume is within 1 second of secondsRemaining right before the pause that
\* froze the running clock, however many pause calls came before the resume.
C5_NoTimeLeak ==
    [][ (hResume.pc = "write" /\ hResume'.pc = "idle" /\ Has(out', "auction_resumed"))
        => LET e == hResume.e
           IN (remAtFreeze[e] # NULL /\ events'[e].present /\ events'[e].endAt # NULL)
              => Abs(SecondsRemaining(events'[e].endAt, now) - remAtFreeze[e]) <= 1
      ]_vars

\* Callback c of the state before the step is no longer in flight after it.
CbDone(c) == \A d \in cbs' : ~(d.key = c.key /\ d.at = c.at)

\* C6 (as claimed): at most one timer is registered per event, whatever
\* representation of the event id the join_event messages carried.
C6_OneTimerPerEvent ==
    \A e \in EventIds : Cardinality({k \in Keys : EventOf(k) = e /\ HasTimer(k)}) <= 1

\* C7 (as claimed): no time_sync is emitted by a callback of a timer that
\* was stopped before the emit.
C7_NoTimeSyncAfterStop ==
    \A i \in DOMAIN out : out[i].type = "time_sync" => ~out[i].val.afterStop

\* C8 (as claimed): a tick of a running event whose elapsed_seconds UPDATE
\* fails still emits a time_sync to the event room.
C8_FailedUpdateStillEmits ==
    [][ \A c \in cbs : (c.pc = "update" /\ CbDone(c) /\ ~storeUp)
            => \E i \in DOMAIN out' :
                  out'[i].type = "time_sync" /\ out'[i].room = RoomOf(c.key) ]_vars

RankByLatestOfDistinctUsers(e, li, amount) ==
    1 + Cardinality({v \in Users :
          \E i \in DOMAIN bids :
             /\ bids[i].event = e /\ bids[i].li = li /\ bids[i].user = v
             /\ \A j \in DOMAIN bids :
                   (bids[j].event = e /\ bids[j].li = li /\ bids[j].user = v) => j <= i
             /\ bids[i].amount < amount})

\* C10 (as claimed): every rank returned for a user's current amount, by the
\* rank endpoint, the bidder line-item listing and the bidder's bids view, is
\* 1 + the number of distinct users whose most recent bid is strictly lower.
C10_RankCountsLatestOfDistinctUsers ==
    \A m \in DOMAIN out :
        /\ (out[m].type = "rank" /\ out[m].val.rank # NULL)
              => out[m].val.rank =
                   RankByLatestOfDistinctUsers(out[m].val.e, out[m].val.li, out[m].val.amount)
        /\ out[m].type = "lineitems"
              => \A k \in DOMAIN out[m].val :
                    out[m].val[k].rank =
                      RankByLatestOfDistinctUsers(out[m].val[k].e, out[m].val[k].li,
                                                  out[m].val[k].amount)
        /\ (out[m].type = "bids")
              => \A k \in DOMAIN out[m].val :
                    ("rank" \in DOMAIN out[m].val[k] /\ out[m].val[k].latest)
                    => out[m].val[k].rank =
                         RankByLatestOfDistinctUsers(out[m].val[k].e, out[m].val[k].li,
                                                     out[m].val[k].amount)

\* The bid a step appends for user u on (e, li), when the step appends one.
Appends(u, e, li) ==
    /\ Len(bids') = Len(bids) + 1
    /\ SubSeq(bids', 1, Len(bids)) = bids
    /\ bids'[Len(bids')].user = u
    /\ bids'[Len(bids')].event = e
    /\ bids'[Len(bids')].li = li

\* C11: when a user who has a current bid on a line item submits a new bid,
\* the others' bids unchanged, the rank the rank endpoints compute for the user
\* does not increase if the new amount is strictly lower and does not decrease
\* if it is strictly higher.
C11_RankMonotonicInAmount ==
    [][ \A u \in Users, e \in EventIds, li \in LineItems :
          (Appends(u, e, li) /\ LatestIndex(e, li, u) # 0)
          => LET old == LatestAmount(e, li, u)
                 new == bids'[Len(bids')].amount
                 rankBefore == RankOverBids(e, li, u)
                 rankAfter == RankOverBids(e, li, u)'
                 legacyBefore == RankOverLatestBids(e, li, old)
                 legacyAfter == RankOverLatestBids(e, li, LatestAmount(e, li, u))'
             IN /\ new < old => (rankAfter <= rankBefore /\ legacyAfter <= legacyBefore)
                /\ new > old => (rankAfter >= rankBefore /\ legacyAfter >= legacyBefore)
      ]_vars

\* C11 witness: a user has just underbid their own earlier bid while another
\* user holds a bid on the same line item.
C11_UserUnderbidThemselves ==
    /\ Has(out, "bid_update")
    /\ Len(bids) >= 3
    /\ \E i, j \in 1..(Len(bids) - 1) :
          /\ bids[i].user = bids[Len(bids)].user
          /\ bids[i].amount > bids[Len(bids)].amount
          /\ bids[j].user # bids[Len(bids)].user

\* The rows of a bids response that carry a pseudonym.
Pseudonymous(rows) ==
    {k \in DOMAIN rows : /\ "display_name" \in DOMAIN rows[k]
                         /\ rows[k].display_name[1] = "Company"}

\* C12: in one masked bid list, the bids of one user carry one label, the
\* bids of two users carry two labels, and the labels are Company A, Company B,
\* ... (character codes 65, 66, ...) in the order in which the users first
\* appear in the list.
C12_PseudonymsConsistentInjection ==
    \A m \in DOMAIN out :
        out[m].type = "bids"
        => LET rows == out[m].val
           IN \A k \in Pseudonymous(rows) :
                 /\ \A j \in Pseudonymous(rows) :
                       (rows[j].user = rows[k].user) <=> (rows[j].display_name = rows[k].display_name)
                 /\ LET first == CHOOSE i \in 1..k :
                                    /\ rows[i].user = rows[k].user
                                    /\ \A h \in 1..(i - 1) : rows[h].user # rows[k].user
                    IN rows[k].display_name[2] =
                         65 + Cardinality({rows[h].user : h \in 1..(first - 1)})

\* C12 witness: a masked bid list of three bids of two users.
C12_MaskedListWithRepeatedUser ==
    \E m \in DOMAIN out :
        /\ out[m].type = "bids"
        /\ Len(out[m].val) >= 3
        /\ Pseudonymous(out[m].val) = DOMAIN out[m].val
        /\ \E j, k \in DOMAIN out[m].val :
              /\ j < k
              /\ out[m].val[j].user = out[m].val[k].user
              /\ \E h \in DOMAIN out[m].val : out[m].val[h].user # out[m].val[k].user

\* A bid history with the bidders exchanged by the permutation p of the users.
Renamed(bs, p) == [i \in DOMAIN bs |-> [bs[i] EXCEPT !.user = p[bs[i].user]]]

\* A bids response without its pseudonym labels.
Unlabelled(rows) ==
    [k \in DOMAIN rows |-> [f \in DOMAIN rows[k] \ {"display_name"} |-> rows[k][f]]]

\* C13 (as claimed): the masked bid list a manager receives is the same, up
\* to the pseudonym labels, as the one the same history gives with the bidders
\* exchanged: it carries nothing that depends on who the bidders are.
C13_MaskedListIndependentOfIdentity ==
    \A m \in DOMAIN out :
        ( /\ out[m].type = "bids"
          /\ out[m].room[2] \in Managers
          /\ Pseudonymous(out[m].val) # {} )
        => \A p \in Permutations(Users) :
              Unlabelled(NamedRows(Renamed(bids, p), out[m].val[1].e, TRUE))
                = Unlabelled(out[m].val)

\* C14 (as claimed): every bid a bidder receives, in the response to the bids
\* query or in a bid_update broadcast to an event room the bidder's socket has
\* joined, is a bid of that bidder.
C14_BidderReceivesOwnBidsOnly ==
    \A m \in DOMAIN out :
        /\ (out[m].type = "bids" /\ out[m].room[2] \in Bidders)
              => \A k \in DOMAIN out[m].val : out[m].val[k].user = out[m].room[2]
        /\ out[m].type = "bid_update"
              => \A sock \in Sockets :
                    (<<out[m].room, sock>> \in rooms /\ UserOf(sock) \in Bidders)
                    => out[m].val.user = UserOf(sock)

\* C15 (as claimed): no step of pause, resume or reset takes a sealed event
\* with reveal_bidders = false out of the sealed state, so the manager's view
\* of it stays masked.
C15_SealedSurvivesPauseResumeReset ==
    [][\A e \in EventIds :
          (events[e].present /\ MaskedView(events[e])) => MaskedView(events'[e])]_vars

\* The callers pause and resume are meant for: managers on the event's team.
Authorized(u, e) == RoleOf(u) = "manager" /\ u \in TeamOf(e)

\* C16 (as claimed): with the store up, a pause or resume request of a user
\* who is no manager, or no member of the event's team, is answered 403,
\* changes no event row and broadcasts neither auction_paused nor
\* auction_resumed.
C16_UnauthorizedPauseResumeRejected ==
    [][\A u \in Users, e \in EventIds :
          ( /\ storeUp /\ NoneInFlight /\ ~Authorized(u, e)
            /\ \/ PauseRead(u, e) \/ ResumeRead(u, e)
               \/ LegacyPause(u, e) \/ LegacyResume(u, e) )
          => /\ out' = <<Res(403)>>
             /\ events' = events
             /\ hPause' = hPause /\ hResume' = hResume]_vars

\* The step that commits a reset and answers success.
ResetSucceeds ==
    /\ hReset.pc = "commit"
    /\ hReset'.pc = "idle"
    /\ \E i \in DOMAIN out' : out'[i] = Res(200)

\* C17: a successful reset of an existing event, whatever its state before,
\* leaves no bid of the event, elapsed_seconds = 0, a type other than paused,
\* no paused_time_remaining and auction_end_time = reset time + duration (the
\* 30 minutes default when the event stores none), and emits exactly one
\* auction_reset, to the event's room.
C17_ResetLeavesFreshEvent ==
    [][(ResetSucceeds /\ events[hReset.e].present) =>
          LET e == hReset.e
          IN /\ \A k \in DOMAIN bids' : bids'[k].event # e
             /\ events'[e].elapsed = 0
             /\ events'[e].type # "paused"
             /\ events'[e].pausedRem = NULL
             /\ events'[e].endAt =
                   hReset.at + OrElse(events[e].dur, DefaultDuration) * MsPerSecond
             /\ Cardinality({i \in DOMAIN out' : out'[i].type = "auction_reset"}) = 1
             /\ \A i \in DOMAIN out' :
                   out'[i].type = "auction_reset" => out'[i].room = EventRoom(e)]_vars

\* C17 witness: event 1 has just been reset, some time after its creation.
C17_EventResetLater ==
    /\ Has(out, "auction_reset")
    /\ events[1].present
    /\ events[1].endAt # NULL
    /\ now > 0

\* C18: the reset is atomic.  While a reset is in flight, every step but the
\* one that commits it (a statement, a failure with its rollback) leaves the
\* stored bids and event rows as they were and broadcasts no auction_reset;
\* the committing step of an existing event deletes the bids and resets the
\* timing fields together.
C18_ResetAtomic ==
    [][/\ (hReset.pc # "idle" /\ ~ResetSucceeds)
          => /\ bids' = bids
             /\ events' = events
             /\ ~Has(out', "auction_reset")
       /\ (ResetSucceeds /\ events[hReset.e].present)
          => /\ \A k \in DOMAIN bids' : bids'[k].event # hReset.e
             /\ events'[hReset.e] = ResetRow(events[hReset.e], hReset.at)]_vars

\* C18 witness: the DELETE and the UPDATE of a reset have been issued, the
\* store has failed before the COMMIT, and the event's bids and its timing
\* fields are still the stored ones.
C18_FailureBeforeCommit ==
    /\ hReset.pc = "commit"
    /\ ~storeUp
    /\ \E k \in DOMAIN bids : bids[k].event = hReset.e
    /\ events[hReset.e].endAt = NULL

\* The emits hold the success response of a request.
Succeeded(emits) ==
    \E i \in DOMAIN emits : emits[i].type = "http" /\ emits[i].val = 200

\* C19 (as claimed): while an event id has no row, no step stores a bid for
\* it or changes its row, nothing is broadcast to its room, and a bid, a
\* pause, a resume or a reset addressed to it does not answer success.
C19_UnknownEventRejected ==
    [][\A e \in EventIds :
          ~events[e].present =>
             /\ events'[e] = events[e]
             /\ \A k \in DOMAIN bids' : bids'[k].event # e
             /\ \A i \in DOMAIN out' :
                   out'[i].type # "http" => out'[i].room # EventRoom(e)
             /\ \A u \in Users :
                   (NoneInFlight /\ (PauseRead(u, e) \/ ResumeRead(u, e)))
                   => (out' # <<>> /\ ~Succeeded(out'))
             /\ (hBid.pc # "idle" /\ hBid.e = e) => ~Succeeded(out')
             /\ (hReset.pc # "idle" /\ hReset.e = e) => ~Succeeded(out')]_vars

\* A positive finite number.
PositiveAmount(a) == ~IsNaN(a) /\ a > 0

\* C20 (as claimed): on no path is a bid stored or broadcast whose amount is
\* not a positive number.
C20_OnlyPositiveAmountsAccepted ==
    /\ \A k \in DOMAIN bids : PositiveAmount(bids[k].amount)
    /\ \A i \in DOMAIN out :
          out[i].type = "bid_update" => PositiveAmount(out[i].val.amount)

\* C21 (as claimed): the tick that finds secondsRemaining 0 on a running event
\* emits the time_sync with 0 and leaves no timer registered for its key; and
\* no step takes the timer of an event that is stored as paused out of the
\* registry.
C21_StopsAtZeroNeverWhilePaused ==
    /\ [][\A c \in cbs :
             (c.pc = "update" /\ CbDone(c) /\ storeUp /\ SecondsRemaining(c.endAt, now) = 0)
             => /\ \E i \in DOMAIN out' :
                      /\ out'[i].type = "time_sync"
                      /\ out'[i].val.secondsRemaining = 0
                /\ ~HasTimer(c.key)']_vars
    /\ [][\A key \in Keys :
             (/\ events[EventOf(key)].present
              /\ events[EventOf(key)].type = "paused"
              /\ HasTimer(key))
             => HasTimer(key)']_vars

\* C22 (as claimed): no step registers a timer for an event whose
\* auction_end_time is not set.
C22_NoTimerWithoutDeadline ==
    [][\A key \in Keys :
          (~HasTimer(key) /\ events[EventOf(key)].endAt = NULL) => ~HasTimer(key)']_vars

C24_TicksInFiringOrder ==
    [][\A key \in Keys :
          /\ lastSync'[key].at >= lastSync[key].at
          /\ lastSync'[key].elapsed >= lastSync[key].elapsed]_vars

\* C25 (as claimed): without a reset the stored elapsed_seconds of an event
\* never decreases, and no step changes it while the event is paused.
C25_ElapsedMonotonic ==
    [][\A e \in EventIds :
          (events[e].present /\ events'[e].present)
          => /\ events'[e].elapsed >= events[e].elapsed
             /\ events[e].type = "paused" => events'[e].elapsed = events[e].elapsed]_vars

\* C26 (as claimed, in the instance it names): the extension a bid handler
\* computed from the row it read is not written to an event that has been
\* paused since: the UPDATE of auction_end_time leaves a paused event's
\* deadline as it is.
C26_NoExtensionOnPausedEvent ==
    [][(hBid.pc = "update" /\ hBid'.pc = "idle" /\ events[hBid.e].type = "paused")
          => events'[hBid.e].endAt = events[hBid.e].endAt]_vars

\* C27 (as claimed): the UPDATE of an extension never stores a deadline
\* earlier than the one it replaces.
C27_ExtensionNeverShortens ==
    [][(hBid.pc = "update" /\ hBid'.pc = "idle" /\ events[hBid.e].endAt # NULL)
          => events'[hBid.e].endAt >= events[hBid.e].endAt]_vars

\* The countdown of the event has expired.
Expired(e) ==
    /\ events[e].present
    /\ events[e].endAt # NULL
    /\ events[e].type # "paused"
    /\ now >= events[e].endAt

\* C28 (as claimed): while the countdown of an event is expired, no step
\* stores a bid for it or broadcasts a bid_update to its room.
C28_NoBidAfterExpiry ==
    [][\A e \in EventIds :
          Expired(e) =>
             /\ ~(Len(bids') > Len(bids) /\ bids'[Len(bids')].event = e)
             /\ \A i \in DOMAIN out' :
                   out'[i].type = "bid_update" => out'[i].room # EventRoom(e)]_vars

\* C30 (as claimed): a reset requested by a manager who is no member of the
\* event's team is refused with 403 and starts no transaction.
C30_ResetNeedsTeamMembership ==
    [][\A u \in Managers, e \in EventIds :
          (NoneInFlight /\ storeUp /\ u \notin TeamOf(e) /\ ResetBegin(u, e))
          => (out' = <<Res(403)>> /\ hReset' = hReset)]_vars

\* C29 (as claimed): no step takes the timer of an event out of the registry
\* while the event is stored as not paused with a deadline a second or more
\* ahead.
C29_TimerKeptUntilDeadline ==
    [][\A key \in Keys :
          (/\ HasTimer(key) /\ ~HasTimer(key)'
           /\ events'[EventOf(key)].present
           /\ events'[EventOf(key)].type # "paused"
           /\ events'[EventOf(key)].endAt # NULL)
          => SecondsRemaining(events'[EventOf(key)].endAt, now) = 0]_vars

====
